---- MODULE Spec2Model ----
(***************************************************************************)
(* Model of ph_coder_docstr: the segmenter (parser.py, CodeParser) and the *)
(* reassembler (processor.py, DocumentationProcessor._reconstruct_file).   *)
(*                                                                         *)
(* A Python str is a sequence of one-character strings; "\n" is the line   *)
(* separator.  A list of str is a sequence of such sequences.              *)
(***************************************************************************)
EXTENDS Integers, Sequences, FiniteSets, TLC

NL == "\n"

\* ------------------------------------------------------------------------
\* Python str primitives
\* ------------------------------------------------------------------------

\* str.isspace() for one character (the whitespace the model's texts use).
IsSpace(c) == c \in {" ", "\t", "\n", "\r"}

\* \w of the re module, for one character.
IsWord(c) ==
    c \in {"a","b","c","d","e","f","g","h","i","j","k","l","m","n","o","p","q",
           "r","s","t","u","v","w","x","y","z","0","1","2","3","4","5","6","7",
           "8","9","_",
           "A","B","C","D","E","F","G","H","I","J","K","L","M","N","O","P","Q",
           "R","S","T","U","V","W","X","Y","Z"}

MinOf(S) == CHOOSE i \in S : \A j \in S : i <= j
Min2(a, b) == IF a <= b THEN a ELSE b

\* The 0-based indices a .. b - 1 (Python's range(a, b)) as a sequence
Range(a, b) == [k \in 1..(IF b > a THEN b - a ELSE 0) |-> a + k - 1]

\* s.split("\n"): the pieces between the separators; always at least one piece.
Split(s) ==
    LET isNL(i) == s[i] = NL
        cuts    == <<0>> \o SelectSeq([i \in 1..Len(s) |-> i], isNL) \o <<Len(s) + 1>>
    IN  [k \in 1..(Len(cuts) - 1) |-> SubSeq(s, cuts[k] + 1, cuts[k + 1] - 1)]

\* "\n".join(ls): the pieces with one separator between neighbours (the
\* concatenation is split in halves to keep the evaluation shallow).
RECURSIVE JoinRange(_, _, _)
JoinRange(ls, a, b) ==
    IF a > b THEN <<>>
    ELSE IF a = b THEN ls[a]
    ELSE LET m == (a + b) \div 2
         IN  (JoinRange(ls, a, m) \o <<NL>>) \o JoinRange(ls, m + 1, b)

Join(ls) == JoinRange(ls, 1, Len(ls))

\* s.lstrip() and s.strip()
NonSpaceAt(s) ==
    LET kept(i) == ~IsSpace(s[i])
    IN  SelectSeq([i \in 1..Len(s) |-> i], kept)

LStrip(s) ==
    LET ns == NonSpaceAt(s)
    IN  IF ns = <<>> THEN <<>> ELSE SubSeq(s, ns[1], Len(s))

Strip(s) ==
    LET ns == NonSpaceAt(s)
    IN  IF ns = <<>> THEN <<>> ELSE SubSeq(s, ns[1], ns[Len(ns)])

\* s.startswith(p)
StartsWith(s, p) == Len(s) >= Len(p) /\ SubSeq(s, 1, Len(p)) = p

\* Python slice ls[a:b] for 0 <= a, on a 0-indexed list held as a 1-indexed
\* sequence: the elements with 0-based index a .. min(b, len) - 1.
Slice(ls, a, b) == SubSeq(ls, a + 1, Min2(b, Len(ls)))

\* ------------------------------------------------------------------------
\* Regular expressions (re.match: anchored at the start, not at the end).
\* A pattern is a tree; Ends gives the set of positions a match of the node
\* can end at when started at any position of P (positions are 1-based
\* indices of the next unread character).
\* ------------------------------------------------------------------------
Lit(c)    == [k |-> "lit", c |-> c]
Lits(s)   == [k |-> "seq", subs |-> [i \in 1..Len(s) |-> Lit(s[i])]]
Cls(n)    == [k |-> "cls", c |-> n]
SeqOf(ss) == [k |-> "seq", subs |-> ss]
Alt(ss)   == [k |-> "alt", subs |-> ss]
Opt(n)    == [k |-> "opt", sub |-> n]
Star(n)   == [k |-> "star", sub |-> n]
Plus(n)   == [k |-> "seq", subs |-> <<n, [k |-> "star", sub |-> n]>>]
Eol       == [k |-> "eol"]

InClass(c, n) ==
    CASE n = "s"     -> IsSpace(c)
      [] n = "w"     -> IsWord(c)
      [] n = "notrp" -> c # ")"
      [] n = "notcolon" -> c # ":"
      [] OTHER       -> FALSE

RECURSIVE Ends(_, _, _)
RECURSIVE EndsSeq(_, _, _, _)
RECURSIVE EndsStar(_, _, _, _)
Ends(n, line, P) ==
    CASE n.k = "lit"  -> {p + 1 : p \in {q \in P : q <= Len(line) /\ line[q] = n.c}}
      [] n.k = "cls"  -> {p + 1 : p \in {q \in P : q <= Len(line) /\ InClass(line[q], n.c)}}
      [] n.k = "seq"  -> EndsSeq(n.subs, 1, line, P)
      [] n.k = "alt"  -> UNION {Ends(n.subs[i], line, P) : i \in 1..Len(n.subs)}
      [] n.k = "opt"  -> P \cup Ends(n.sub, line, P)
      [] n.k = "star" -> EndsStar(n.sub, line, P, P)
      [] n.k = "eol"  -> {p \in P : p = Len(line) + 1}
EndsSeq(subs, i, line, P) ==
    IF i > Len(subs) \/ P = {} THEN P
    ELSE EndsSeq(subs, i + 1, line, Ends(subs[i], line, P))
EndsStar(sub, line, frontier, acc) ==
    LET nxt == Ends(sub, line, frontier) \ acc
    IN  IF nxt = {} THEN acc ELSE EndsStar(sub, line, nxt, acc \cup nxt)

\* re.match(pattern, line) is not None
Matches(pattern, line) == Ends(pattern, line, {1}) # {}

\* ------------------------------------------------------------------------
\* config.py
\* ------------------------------------------------------------------------
MAX_LINES_PER_UNIT == 50

\* ------------------------------------------------------------------------
\* parser.py: CodeUnit
\* ------------------------------------------------------------------------
None == "None"

\* CodeUnit.__init__ ; comment starts as the empty str
CodeUnit(content, start_line, end_line, unit_type, section) ==
    [content |-> content, start_line |-> start_line, end_line |-> end_line,
     unit_type |-> unit_type, section |-> section, comment |-> <<>>]

\* CodeUnit.get_line_count
get_line_count(unit) == Len(Split(unit.content))

\* ------------------------------------------------------------------------
\* parser.py: CodeParser.FUNCTION_PATTERNS
\* ------------------------------------------------------------------------
S0   == Star(Cls("s"))
S1   == Plus(Cls("s"))
W1   == Plus(Cls("w"))
Args == SeqOf(<<Lit("("), Star(Cls("notrp")), Lit(")")>>)
KwAsync    == SeqOf(<<Lits(<<"a","s","y","n","c">>), S1>>)
KwFunction == Lits(<<"f","u","n","c","t","i","o","n">>)
KwClass    == Lits(<<"c","l","a","s","s">>)
KwDecl     == Alt(<<Lits(<<"c","o","n","s","t">>), Lits(<<"l","e","t">>),
                    Lits(<<"v","a","r">>)>>)

PythonPatterns ==
    << \* ^(\s*)(def\s+\w+\s*\([^)]*\)\s*(?:->\s*[^:]+)?\s*:)
       SeqOf(<<S0, Lits(<<"d","e","f">>), S1, W1, S0, Args, S0,
               Opt(SeqOf(<<Lits(<<"-",">">>), S0, Plus(Cls("notcolon"))>>)),
               S0, Lit(":")>>),
       \* ^(\s*)(class\s+\w+(?:\([^)]*\))?\s*:)
       SeqOf(<<S0, KwClass, S1, W1, Opt(Args), S0, Lit(":")>>),
       \* ^(\s*)(@\w+(?:\([^)]*\))?)\s*$
       SeqOf(<<S0, Lit("@"), W1, Opt(Args), S0, Eol>>) >>

JavascriptPatterns ==
    << \* ^(\s*)((?:async\s+)?function\s+\w+\s*\([^)]*\)\s*\{)
       SeqOf(<<S0, Opt(KwAsync), KwFunction, S1, W1, S0, Args, S0, Lit("{")>>),
       \* ^(\s*)((?:const|let|var)\s+\w+\s*=\s*(?:async\s+)?function\s*\([^)]*\)\s*\{)
       SeqOf(<<S0, KwDecl, S1, W1, S0, Lit("="), S0, Opt(KwAsync), KwFunction,
               S0, Args, S0, Lit("{")>>),
       \* ^(\s*)((?:const|let|var)\s+\w+\s*=\s*(?:async\s+)?\([^)]*\)\s*=>\s*\{)
       SeqOf(<<S0, KwDecl, S1, W1, S0, Lit("="), S0, Opt(KwAsync), Args, S0,
               Lits(<<"=",">">>), S0, Lit("{")>>),
       \* ^(\s*)(class\s+\w+(?:\s+extends\s+\w+)?\s*\{)
       SeqOf(<<S0, KwClass, S1, W1,
               Opt(SeqOf(<<S1, Lits(<<"e","x","t","e","n","d","s">>), S1, W1>>)),
               S0, Lit("{")>>),
       \* ^(\s*)(\w+\s*\([^)]*\)\s*\{)
       SeqOf(<<S0, W1, S0, Args, S0, Lit("{")>>) >>

\* FUNCTION_PATTERNS.get(language, []) for the languages of the model.  (The
\* table's "vue" entry is never consulted: split_into_units leaves for
\* _split_vue_file before any pattern is read.)
FUNCTION_PATTERNS(language) ==
    CASE language = "python"     -> PythonPatterns
      [] language = "javascript" -> JavascriptPatterns
      [] OTHER                   -> <<>>

\* ------------------------------------------------------------------------
\* parser.py: CodeParser
\* ------------------------------------------------------------------------

\* lines[i] for a 0-based index
At(lines, i) == lines[i + 1]

\* find_function_starts: the 0-based indices of the lines some pattern matches
\* (the patterns are tried once on each distinct line of the text)
find_function_starts(language, lines) ==
    LET patterns == FUNCTION_PATTERNS(language)
        matched  == [line \in {lines[i] : i \in 1..Len(lines)} |->
                        \E p \in 1..Len(patterns) : Matches(patterns[p], line)]
        isStart(i) == matched[At(lines, i)]
    IN  SelectSeq([i \in 1..Len(lines) |-> i - 1], isStart)

\* len(line) - len(line.lstrip())
Indent(line) == Len(line) - Len(LStrip(line))

\* A mutation of _find_python_block_end: "<" for "<=" in line 158
FindPythonBlockEndStrict(lines, start) ==
    IF start >= Len(lines) THEN Len(lines) - 1
    ELSE LET base_indent == Indent(At(lines, start))
             returns(i)  == /\ Strip(At(lines, i)) # <<>>
                            /\ Indent(At(lines, i)) < base_indent
             hits        == SelectSeq(Range(start + 1, Len(lines)), returns)
         IN  IF hits # <<>> THEN hits[1] - 1 ELSE Len(lines) - 1

\* _find_python_block_end: the loop returns at the first i of
\* range(start + 1, len(lines)) that is not skipped as blank and whose
\* indentation is at most the base indentation.
_find_python_block_end(lines, start) ==
    IF start >= Len(lines) THEN Len(lines) - 1
    ELSE LET base_indent == Indent(At(lines, start))
             returns(i)  == /\ Strip(At(lines, i)) # <<>>
                            /\ Indent(At(lines, i)) <= base_indent
             hits        == SelectSeq(Range(start + 1, Len(lines)), returns)
         IN  IF hits # <<>> THEN hits[1] - 1 ELSE Len(lines) - 1

\* A mutation of BraceLine: it returns at the first "}" after a "{", whatever
\* the brace count
RECURSIVE BraceLineFirstClose(_, _, _, _)
BraceLineFirstClose(line, j, brace_count, started) ==
    IF j > Len(line) THEN [count |-> brace_count, started |-> started, hit |-> FALSE]
    ELSE IF line[j] = "{" THEN BraceLineFirstClose(line, j + 1, brace_count + 1, TRUE)
    ELSE IF line[j] = "}" THEN
        IF started
        THEN [count |-> 0, started |-> started, hit |-> TRUE]
        ELSE BraceLineFirstClose(line, j + 1, brace_count - 1, started)
    ELSE BraceLineFirstClose(line, j + 1, brace_count, started)

\* The inner loop of _find_brace_block_end over one line, from character j:
\* the brace count and started flag after the line, and whether it returned.
RECURSIVE BraceLine(_, _, _, _)
BraceLine(line, j, brace_count, started) ==
    IF j > Len(line) THEN [count |-> brace_count, started |-> started, hit |-> FALSE]
    ELSE IF line[j] = "{" THEN BraceLine(line, j + 1, brace_count + 1, TRUE)
    ELSE IF line[j] = "}" THEN
        IF started /\ brace_count - 1 = 0
        THEN [count |-> 0, started |-> started, hit |-> TRUE]
        ELSE BraceLine(line, j + 1, brace_count - 1, started)
    ELSE BraceLine(line, j + 1, brace_count, started)

\* A mutation of BraceScan: a block that is never closed ends at len(lines)
RECURSIVE BraceScanPastEnd(_, _, _, _, _)
BraceScanPastEnd(lines, idx, k, brace_count, started) ==
    IF k > Len(idx) THEN Len(lines)
    ELSE LET r == BraceLine(At(lines, idx[k]), 1, brace_count, started)
         IN  IF r.hit THEN idx[k]
             ELSE BraceScanPastEnd(lines, idx, k + 1, r.count, r.started)

\* The outer loop of _find_brace_block_end over the lines idx[k], idx[k+1], ...
RECURSIVE BraceScan(_, _, _, _, _)
BraceScan(lines, idx, k, brace_count, started) ==
    IF k > Len(idx) THEN Len(lines) - 1
    ELSE LET r == BraceLine(At(lines, idx[k]), 1, brace_count, started)
         IN  IF r.hit THEN idx[k]
             ELSE BraceScan(lines, idx, k + 1, r.count, r.started)

\* A line without a brace leaves brace_count and started as they are and
\* cannot return, so the loop is run over the lines of range(start, len(lines))
\* that hold a brace.
_find_brace_block_end(lines, start) ==
    IF start >= Len(lines) THEN Len(lines) - 1
    ELSE LET hasBrace(i) == \E j \in 1..Len(At(lines, i)) : At(lines, i)[j] \in {"{", "}"}
         IN  BraceScan(lines, SelectSeq(Range(start, Len(lines)), hasBrace), 1, 0, FALSE)

find_block_end(language, lines, start) ==
    IF language = "python" THEN _find_python_block_end(lines, start)
    ELSE _find_brace_block_end(lines, start)

\* The chunks range(0, len(lines), MAX_LINES_PER_UNIT) of _split_by_chunks and
\* _split_long_unit, offset by base; whitespace-only chunks are left out.
ChunkCount(n) == (n + MAX_LINES_PER_UNIT - 1) \div MAX_LINES_PER_UNIT

\* the chunks numbered from the first line of the unit instead of the file
FixedChunksRelative(lines, base) ==
    LET chunkAt(k) ==
            LET i     == (k - 1) * MAX_LINES_PER_UNIT
                chunk == Slice(lines, i, i + MAX_LINES_PER_UNIT)
            IN  CodeUnit(Join(chunk), i, Min2(i + Len(chunk) - 1, Len(lines) - 1),
                         "chunk", None)
        hasText(u) == Strip(u.content) # <<>>
    IN  SelectSeq([k \in 1..ChunkCount(Len(lines)) |-> chunkAt(k)], hasText)

FixedChunks(lines, base) ==
    LET chunkAt(k) ==
            LET i     == (k - 1) * MAX_LINES_PER_UNIT
                chunk == Slice(lines, i, i + MAX_LINES_PER_UNIT)
            IN  CodeUnit(Join(chunk), base + i,
                         base + Min2(i + Len(chunk) - 1, Len(lines) - 1),
                         "chunk", None)
        hasText(u) == Strip(u.content) # <<>>
    IN  SelectSeq([k \in 1..ChunkCount(Len(lines)) |-> chunkAt(k)], hasText)

_split_by_chunks(lines) == FixedChunks(lines, 0)

_split_long_unit(unit) == FixedChunks(Split(unit.content), unit.start_line)

\* split_into_units, lines 208-225: the units of one function start (the
\* unit itself, or its sub-units when it is too long)
FunctionUnits(lines, start, end) ==
    LET unit == CodeUnit(Join(Slice(lines, start, end + 1)), start, end,
                         "function", None)
    IN  IF get_line_count(unit) > MAX_LINES_PER_UNIT
        THEN _split_long_unit(unit)
        ELSE <<unit>>

\* split_into_units, line 210: end = self.find_block_end(lines, start), for
\* each function start
BlockEnds(language, lines, function_starts) ==
    [k \in 1..Len(function_starts) |->
        find_block_end(language, lines, function_starts[k])]

RECURSIVE AllFunctionUnits(_, _, _, _, _)
AllFunctionUnits(lines, function_starts, ends, k, units) ==
    IF k > Len(function_starts) THEN units
    ELSE AllFunctionUnits(lines, function_starts, ends, k + 1,
                          units \o FunctionUnits(lines, function_starts[k], ends[k]))

\* split_into_units, lines 209-215: the lines marked as processed
ProcessedLines(function_starts, ends) ==
    UNION {function_starts[k]..ends[k] : k \in 1..Len(function_starts)}

\* split_into_units, lines 228-252: the loop over the unprocessed lines.
\* current_chunk gathers consecutive unprocessed lines from chunk_start on; it
\* is closed when it holds MAX_LINES_PER_UNIT lines (end i), when a processed
\* line follows (end i - 1) and at the end of the file (end len(lines) - 1).
\* So each maximal run a..b of unprocessed lines is cut, from a on, into
\* chunks of MAX_LINES_PER_UNIT lines, the last one ending at b; a chunk whose
\* text is whitespace is not kept.
\* the chunks closed one line late
RunChunksOneLate(lines, a, b) ==
    LET chunkAt(k) ==
            LET chunk_start   == a + (k - 1) * MAX_LINES_PER_UNIT
                end           == Min2(chunk_start + MAX_LINES_PER_UNIT, b)
                current_chunk == Slice(lines, chunk_start, end + 1)
            IN  CodeUnit(Join(current_chunk), chunk_start, end, "chunk", None)
        hasText(u) == Strip(u.content) # <<>>
    IN  SelectSeq([k \in 1..ChunkCount(b - a + 1) |-> chunkAt(k)], hasText)

RunChunks(lines, a, b) ==
    LET chunkAt(k) ==
            LET chunk_start   == a + (k - 1) * MAX_LINES_PER_UNIT
                end           == Min2(chunk_start + MAX_LINES_PER_UNIT - 1, b)
                current_chunk == Slice(lines, chunk_start, end + 1)
            IN  CodeUnit(Join(current_chunk), chunk_start, end, "chunk", None)
        hasText(u) == Strip(u.content) # <<>>
    IN  SelectSeq([k \in 1..ChunkCount(b - a + 1) |-> chunkAt(k)], hasText)

RECURSIVE RunsChunks(_, _, _, _, _)
RunsChunks(lines, processed_lines, run_starts, k, units) ==
    IF k > Len(run_starts) THEN units
    ELSE LET a == run_starts[k]
             isProcessed(i) == i \in processed_lines
             stops == SelectSeq(Range(a, Len(lines)), isProcessed)
             b == IF stops # <<>> THEN stops[1] - 1 ELSE Len(lines) - 1
         IN  RunsChunks(lines, processed_lines, run_starts, k + 1,
                        units \o RunChunks(lines, a, b))

RemainingChunks(lines, processed_lines, units) ==
    LET opensRun(i) == i \notin processed_lines /\ (i = 0 \/ (i - 1) \in processed_lines)
    IN  RunsChunks(lines, processed_lines,
                   SelectSeq(Range(0, Len(lines)), opensRun), 1, units)

\* list.sort(key=lambda u: u.start_line): a stable sort, as an insertion sort
RECURSIVE InsertByStart(_, _)
InsertByStart(sorted, u) ==
    IF sorted = <<>> THEN <<u>>
    ELSE IF sorted[Len(sorted)].start_line <= u.start_line THEN Append(sorted, u)
    ELSE Append(InsertByStart(SubSeq(sorted, 1, Len(sorted) - 1), u),
                sorted[Len(sorted)])

RECURSIVE SortFrom(_, _, _)
SortFrom(units, k, sorted) ==
    IF k > Len(units) THEN sorted
    ELSE SortFrom(units, k + 1, InsertByStart(sorted, units[k]))

SortByStartLine(units) == SortFrom(units, 1, <<>>)

\* split_into_units for a language other than vue
SplitPlain(language, content) ==
    LET lines == Split(content)
        function_starts == find_function_starts(language, lines)
        ends == BlockEnds(language, lines, function_starts)
    IN  IF function_starts = <<>> THEN _split_by_chunks(lines)
        ELSE SortByStartLine(
                RemainingChunks(lines,
                                ProcessedLines(function_starts, ends),
                                AllFunctionUnits(lines, function_starts, ends,
                                                 1, <<>>)))

\* ------------------------------------------------------------------------
\* parser.py: Vue single-file components
\* ------------------------------------------------------------------------
TagTemplate == <<"<","t","e","m","p","l","a","t","e">>
TagScript   == <<"<","s","c","r","i","p","t">>
TagStyle    == <<"<","s","t","y","l","e">>
EndTemplate == <<"<","/","t","e","m","p","l","a","t","e",">">>
EndScript   == <<"<","/","s","c","r","i","p","t",">">>
EndStyle    == <<"<","/","s","t","y","l","e",">">>

\* _find_vue_sections: the loop of lines 319-338 over the lines idx[k],
\* idx[k+1], ..., then lines 341-342.  A section is
\* <<section_type, start_line, end_line>>.
RECURSIVE VueScan(_, _, _, _, _, _)
VueScan(lines, idx, k, current_section, section_start, sections) ==
    IF k > Len(idx) THEN
        IF current_section # None /\ section_start < Len(lines)
        THEN Append(sections, <<current_section, section_start, Len(lines) - 1>>)
        ELSE sections
    ELSE LET i == idx[k]
             stripped == Strip(At(lines, i)) IN
        IF StartsWith(stripped, TagTemplate)
        THEN VueScan(lines, idx, k + 1, "template", i + 1, sections)
        ELSE IF StartsWith(stripped, TagScript)
        THEN VueScan(lines, idx, k + 1, "script", i + 1, sections)
        ELSE IF StartsWith(stripped, TagStyle)
        THEN VueScan(lines, idx, k + 1, "style", i + 1, sections)
        ELSE IF stripped \in {EndTemplate, EndScript, EndStyle} THEN
            IF current_section # None
            THEN VueScan(lines, idx, k + 1, None, section_start,
                         IF i > section_start
                         THEN Append(sections, <<current_section, section_start, i - 1>>)
                         ELSE sections)
            ELSE VueScan(lines, idx, k + 1, current_section, section_start, sections)
        ELSE VueScan(lines, idx, k + 1, current_section, section_start, sections)

\* A line that is neither an opening nor a closing tag changes nothing, so
\* the loop is run over the tag lines.
_find_vue_sections(lines) ==
    LET isTag(i) ==
            LET stripped == Strip(At(lines, i))
            IN  \/ StartsWith(stripped, TagTemplate)
                \/ StartsWith(stripped, TagScript)
                \/ StartsWith(stripped, TagStyle)
                \/ stripped \in {EndTemplate, EndScript, EndStyle}
    IN  VueScan(lines, SelectSeq(Range(0, Len(lines)), isTag), 1, None, 0, <<>>)

\* A mutation of SectionUnits: the line numbers of the script units are not
\* shifted by the start of the section
SectionUnitsUnshifted(lines, section) ==
    LET section_type    == section[1]
        start_line      == section[2]
        end_line        == section[3]
        section_content == Join(Slice(lines, start_line, end_line + 1))
    IN  IF section_type = "script"
        THEN LET section_units == SplitPlain("javascript", section_content)
             IN  [k \in 1..Len(section_units) |->
                    [section_units[k] EXCEPT !.section = section_type]]
        ELSE <<CodeUnit(section_content, start_line, end_line, "chunk", section_type)>>

\* _split_vue_file, lines 275-300: the units of one section
SectionUnits(lines, section) ==
    LET section_type    == section[1]
        start_line      == section[2]
        end_line        == section[3]
        section_content == Join(Slice(lines, start_line, end_line + 1))
    IN  IF section_type = "script"
        THEN LET section_units == SplitPlain("javascript", section_content)
             IN  [k \in 1..Len(section_units) |->
                    [section_units[k] EXCEPT
                        !.start_line = @ + start_line,
                        !.end_line   = @ + start_line,
                        !.section    = section_type]]
        ELSE <<CodeUnit(section_content, start_line, end_line, "chunk", section_type)>>

RECURSIVE VueUnits(_, _, _, _)
VueUnits(lines, sections, k, units) ==
    IF k > Len(sections) THEN units
    ELSE VueUnits(lines, sections, k + 1, units \o SectionUnits(lines, sections[k]))

_split_vue_file(content) ==
    LET lines == Split(content)
    IN  VueUnits(lines, _find_vue_sections(lines), 1, <<>>)

\* How deep the calls of split_into_units nest: _split_vue_file (line 195)
\* makes a CodeParser("javascript") for a script section (lines 279-290) and
\* calls its split_into_units on the section's text.
RECURSIVE NestingDepth(_, _)
NestingDepth(language, content) ==
    IF language # "vue" THEN 0
    ELSE LET lines    == Split(content)
             isScript(section) == section[1] = "script"
             scripts  == SelectSeq(_find_vue_sections(lines), isScript)
             depths   == {NestingDepth("javascript",
                                       Join(Slice(lines, scripts[k][2], scripts[k][3] + 1)))
                          : k \in 1..Len(scripts)}
         IN  IF scripts = <<>> THEN 0
             ELSE 1 + (CHOOSE d \in depths : \A e \in depths : e <= d)

\* CodeParser(language).split_into_units(content)
split_into_units(language, content) ==
    IF language = "vue" THEN _split_vue_file(content)
    ELSE SplitPlain(language, content)

\* ------------------------------------------------------------------------
\* processor.py: DocumentationProcessor._reconstruct_file
\*
\* The loop state is the record [new_lines, origin, processed_lines,
\* current_line, raised].  origin is the history of new_lines: for each line
\* appended, where it came from (<<"file", j>> line j of the file comment,
\* <<"sep">> the empty line after it, <<"line", i, k>> original line i,
\* appended in iteration k of the loop over the units (Len(units) + 1: by the
\* final loop), <<"comment", k, j>> line j of the comment of the k-th unit in
\* sorted order).
\* raised records the IndexError of lines[current_line] at line 219.
\* ------------------------------------------------------------------------

\* A mutation of _has_actual_code: every unit counts as code
HasActualCodeAlways(content) == TRUE

\* _has_actual_code
_has_actual_code(content) == Len(Strip(content)) > 0

\* A mutation of FreshOnly: the processed_lines test is left out
FreshOnlyUnchecked(indices, processed) == indices

\* "if i not in processed_lines" (lines 218, 230, 246) over a run of indices
FreshOnly(indices, processed) ==
    LET fresh(i) == i \notin processed
    IN  SelectSeq(indices, fresh)

\* A mutation of FileCommentShown: the test of the original text is left out
FileCommentShownAlways(original_content, file_comment) == file_comment # <<>>

\* line 204: "if file_comment and original_content.strip()"
FileCommentShown(original_content, file_comment) ==
    file_comment # <<>> /\ Strip(original_content) # <<>>

\* lines 200-214
ReconstructStart(original_content, file_comment) ==
    LET withComment == FileCommentShown(original_content, file_comment)
        fc == Split(file_comment)
    IN  [new_lines       |-> IF withComment THEN Append(fc, <<>>) ELSE <<>>,
         origin          |-> IF withComment
                             THEN Append([j \in 1..Len(fc) |-> <<"file", j>>], <<"sep">>)
                             ELSE <<>>,
         processed_lines |-> {},
         current_line    |-> 0,
         raised          |-> FALSE]

\* lines 216-242: the body of the loop for the k-th unit
ReconstructStep(lines, st, unit, k) ==
    LET before     == FreshOnly(Range(st.current_line, unit.start_line),
                                st.processed_lines)
        upper      == Min2(unit.end_line + 1, Len(lines))
        processed1 == st.processed_lines \cup {before[j] : j \in 1..Len(before)}
        own        == FreshOnly(Range(unit.start_line, upper), processed1)
        has_code   == _has_actual_code(Join(Slice(lines, unit.start_line, upper)))
        comment    == IF unit.comment # <<>> THEN Split(unit.comment) ELSE <<>>
    IN  IF \E j \in 1..Len(before) : before[j] >= Len(lines)
        THEN [st EXCEPT !.raised = TRUE]
        ELSE [new_lines |->
                 (st.new_lines \o [j \in 1..Len(before) |-> At(lines, before[j])])
                 \o (IF has_code
                     THEN [j \in 1..Len(own) |-> At(lines, own[j])] \o comment
                     ELSE <<>>),
              origin |->
                 (st.origin \o [j \in 1..Len(before) |-> <<"line", before[j], k>>])
                 \o (IF has_code
                     THEN [j \in 1..Len(own) |-> <<"line", own[j], k>>]
                          \o [j \in 1..Len(comment) |-> <<"comment", k, j>>]
                     ELSE <<>>),
              processed_lines |->
                 processed1 \cup (IF has_code
                                  THEN {own[j] : j \in 1..Len(own)}
                                  ELSE {i \in 0..(upper - 1) : i >= unit.start_line}),
              current_line |-> unit.end_line + 1,
              raised |-> FALSE]

\* lines 244-248
ReconstructFlush(lines, st, k) ==
    LET rest == FreshOnly(Range(st.current_line, Len(lines)), st.processed_lines)
    IN  [st EXCEPT !.new_lines = @ \o [j \in 1..Len(rest) |-> At(lines, rest[j])],
                   !.origin    = @ \o [j \in 1..Len(rest) |-> <<"line", rest[j], k>>],
                   !.current_line = IF @ < Len(lines) THEN Len(lines) ELSE @]

\* The whole call: the returned str, or "raised"
RECURSIVE ReconstructLoop(_, _, _, _)
ReconstructLoop(lines, sorted, k, st) ==
    IF st.raised \/ k > Len(sorted) THEN st
    ELSE ReconstructLoop(lines, sorted, k + 1,
                         ReconstructStep(lines, st, sorted[k], k))

ReconstructResult(original_content, unitList, file_comment) ==
    LET lines == Split(original_content)
        st == ReconstructLoop(lines, SortByStartLine(unitList), 1,
                              ReconstructStart(original_content, file_comment))
    IN  IF st.raised THEN "raised"
        ELSE Join(ReconstructFlush(lines, st, Len(unitList) + 1).new_lines)

\* ------------------------------------------------------------------------
\* The comment formatter (api_client.py, APIClient)
\* ------------------------------------------------------------------------

\* s.endswith(p)
EndsWith(s, p) == Len(s) >= Len(p) /\ SubSeq(s, Len(s) - Len(p) + 1, Len(s)) = p

\* s.split(): the maximal runs of non-whitespace characters
SplitWords(s) ==
    LET first(i) == ~IsSpace(s[i]) /\ (i = 1 \/ IsSpace(s[i - 1]))
        last(i)  == ~IsSpace(s[i]) /\ (i = Len(s) \/ IsSpace(s[i + 1]))
        starts   == SelectSeq([i \in 1..Len(s) |-> i], first)
        ends     == SelectSeq([i \in 1..Len(s) |-> i], last)
    IN  [k \in 1..Len(starts) |-> SubSeq(s, starts[k], ends[k])]

\* _split_long_line, lines 148-162: the body of the loop over the words
SplitWord(st, word, max_length) ==
    IF Len(st.current_line) + Len(word) + 1 > max_length
    THEN IF st.current_line # <<>>
         THEN [lines |-> Append(st.lines, Strip(st.current_line)),
               current_line |-> word]
         ELSE [lines |-> Append(st.lines, Slice(word, 0, max_length)),
               current_line |-> SubSeq(word, max_length + 1, Len(word))]
    ELSE [lines |-> st.lines,
          current_line |-> IF st.current_line # <<>>
                           THEN st.current_line \o <<" ">> \o word
                           ELSE word]

RECURSIVE SplitWordsLoop(_, _, _, _)
SplitWordsLoop(st, words, k, max_length) ==
    IF k > Len(words) THEN st
    ELSE SplitWordsLoop(SplitWord(st, words[k], max_length), words, k + 1, max_length)

\* _split_long_line, lines 144-165: the loop over the paragraphs
RECURSIVE SplitParagraphs(_, _, _, _)
SplitParagraphs(lines, paragraphs, p, max_length) ==
    IF p > Len(paragraphs) THEN lines
    ELSE LET st == SplitWordsLoop([lines |-> lines, current_line |-> <<>>],
                                  SplitWords(paragraphs[p]), 1, max_length)
         IN  SplitParagraphs(IF st.current_line # <<>>
                             THEN Append(st.lines, Strip(st.current_line))
                             ELSE st.lines,
                             paragraphs, p + 1, max_length)

_split_long_line(text, max_length) ==
    IF Len(text) <= max_length THEN <<text>>
    ELSE LET lines == SplitParagraphs(<<>>, Split(text), 1, max_length)
         IN  IF lines # <<>> THEN lines ELSE <<text>>

\* format_comment, lines 208-216: the leading markers //, /*, # and *
RECURSIVE StripLeadingMarkers(_)
StripLeadingMarkers(line) ==
    IF line = <<>> \/ line[1] \notin {"/", "*", "#"} THEN line
    ELSE IF StartsWith(line, <<"/","/">>) \/ StartsWith(line, <<"/","*">>)
         THEN StripLeadingMarkers(Strip(SubSeq(line, 3, Len(line))))
    ELSE IF StartsWith(line, <<"#">>) \/ StartsWith(line, <<"*">>)
         THEN StripLeadingMarkers(Strip(SubSeq(line, 2, Len(line))))
    ELSE line

\* format_comment, lines 219-225: the trailing markers */ and *
RECURSIVE StripTrailingMarkers(_)
StripTrailingMarkers(line) ==
    IF Len(line) < 2 THEN line
    ELSE IF EndsWith(line, <<"*","/">>)
         THEN StripTrailingMarkers(Strip(SubSeq(line, 1, Len(line) - 2)))
    ELSE IF EndsWith(line, <<"*">>)
         THEN StripTrailingMarkers(Strip(SubSeq(line, 1, Len(line) - 1)))
    ELSE line

\* format_comment, lines 182-189: a leading markdown fence and the closing one
\* (the grave accent U+0060 cannot be written in a string here: the element
\* "grave" of a str stands for that one character)
Grave == "grave"
Fence == <<Grave, Grave, Grave>>

Unfence(comment) ==
    IF StartsWith(comment, Fence)
    THEN LET lines == Split(comment)
             rest  == SubSeq(lines, 2, Len(lines))
             body  == IF rest # <<>> /\ StartsWith(rest[Len(rest)], Fence)
                      THEN SubSeq(rest, 1, Len(rest) - 1)
                      ELSE rest
         IN  Strip(Join(body))
    ELSE comment

\* format_comment, line 235: max_length=30
max_length == 30

\* format_comment, lines 197-236: the cleaned and re-wrapped lines
RECURSIVE ProcessLines(_, _, _)
ProcessLines(raw_lines, k, processed) ==
    IF k > Len(raw_lines) THEN processed
    ELSE LET line == Strip(StripTrailingMarkers(StripLeadingMarkers(Strip(raw_lines[k]))))
         IN  ProcessLines(raw_lines, k + 1,
                          IF line = <<>> THEN processed
                          ELSE processed \o _split_long_line(line, max_length))

\* format_comment, lines 242-271: the markers of the language
format_comment(comment, lang, indent) ==
    LET text == Strip(Unfence(comment))
        processed == IF text = <<>> THEN <<>> ELSE ProcessLines(Split(text), 1, <<>>)
        slashes == [k \in 1..Len(processed) |-> indent \o <<"/","/"," ">> \o processed[k]]
        hashes  == [k \in 1..Len(processed) |-> indent \o <<"#"," ">> \o processed[k]]
        stars   == [k \in 1..Len(processed) |-> indent \o <<" ","*"," ">> \o processed[k]]
    IN  IF processed = <<>> THEN <<>>
        ELSE IF lang = "python" THEN Join(hashes)
        ELSE IF lang \in {"javascript", "typescript", "vue"} THEN Join(slashes)
        ELSE IF lang = "go" THEN Join(slashes)
        ELSE IF lang \in {"c", "cpp", "cuda"}
             THEN IF Len(processed) = 1 THEN slashes[1]
                  ELSE Join(<<indent \o <<"/","*">>>> \o stars \o <<indent \o <<" ","*","/">>>>)
        ELSE Join(hashes)

\* ------------------------------------------------------------------------
\* The state: one run of process_file's core (lines 101-151) on one file
\* ------------------------------------------------------------------------
VARIABLES
    language,         \* SUPPORTED_EXTENSIONS[ext], or a tag without patterns
    content,          \* the file's text
    pc,               \* "split", "annotate", "reconstruct", "loop", "done", "raised"
    sections,         \* _split_vue_file: the list of _find_vue_sections
    extents,          \* split_into_units: <<start, end>> of each function start
    units,            \* the list of CodeUnit
    file_comment,     \* the formatted file-level comment ("" when there is none)
    new_lines,        \* _reconstruct_file: the output lines so far
    origin,           \* history of new_lines (see ReconstructStart)
    processed_lines,  \* _reconstruct_file: the set of consumed line indices
    current_line,     \* _reconstruct_file: the cursor
    unit_index,       \* _reconstruct_file: position of the for loop, from 1
    output,           \* the returned str
    comment,          \* format_comment: the text the backend returned
    split_lines,      \* the list returned by _split_long_line(comment, 30)
    formatted,        \* format_comment(comment, language)
    reformatted,      \* format_comment(formatted, language)
    runs,             \* the number of invocations of main so far
    args,             \* argparse: clean_backups, dry_run
    env_ok,           \* OPENAI_API_KEY and OPENAI_MODELS_LIST are usable
    exit_code,        \* the exit status of the invocation, None while it runs
    exception,        \* the exception main caught, None when there is none
    config_loaded,    \* Config() was constructed in this invocation
    completed_files,  \* DocumentationProcessor.completed_files: the keys
    marked,           \* the paths loaded or marked complete in this invocation
    progress_record,  \* the JSON file .ph_coder_docstr_progress.json
    disk,             \* per file: how many times its text was rewritten
    backup,           \* per file: the version held by its .backup, or None
    pending,          \* process_project: the code files still to visit
    segment_calls,    \* calls of split_into_units in this invocation
    backend_calls,    \* calls of generate_comment in this invocation
    last_call,        \* what the latest call of process_file did
    max_retries,      \* generate_comment: the parameter
    attempt,          \* generate_comment: the loop variable
    model_index,      \* APIClient.model_index
    outcomes,         \* the outcome of each backend call made, in order
    waits,            \* the wait_time of each time.sleep made, in order
    result,           \* what generate_comment returned
    unit_comment      \* process_file: unit.comment

formatVars == <<comment, split_lines, formatted, reformatted>>

projectVars == <<runs, args, env_ok, exit_code, exception, config_loaded, completed_files,
                 marked, progress_record, disk, backup, pending, segment_calls,
                 backend_calls, last_call>>

retryVars == <<max_retries, attempt, model_index, outcomes, waits, result,
               unit_comment>>

\* what process_file's core leaves alone
auxVars == <<formatVars, projectVars, retryVars>>

vars == <<language, content, pc, sections, extents, units, file_comment,
          new_lines, origin, processed_lines, current_line, unit_index, output,
          auxVars>>

recVars == <<new_lines, origin, processed_lines, current_line, unit_index, output>>

fileVars == <<content, sections, extents, units, file_comment, recVars>>

\* no comment is being formatted
FormatIdle ==
    /\ comment = <<>>
    /\ split_lines = <<>>
    /\ formatted = <<>>
    /\ reformatted = <<>>

\* main.py and process_project: the code files in the order of
\* sorted(code_files), line 68
Files == <<"a.py", "b.js">>

NoCall == [file |-> None, recorded |-> FALSE, returned |-> FALSE,
           segmented |-> FALSE, requested |-> FALSE, written |-> {},
           steps |-> <<>>, raised |-> None, index |-> 0,
           before |-> <<>>, after |-> <<>>]

NoArgs == [clean_backups |-> FALSE, dry_run |-> FALSE]

\* no invocation of main has been made on the project
ProjectIdle ==
    /\ runs = 0
    /\ args = NoArgs
    /\ env_ok = FALSE
    /\ exit_code = None
    /\ exception = None
    /\ config_loaded = FALSE
    /\ completed_files = {}
    /\ marked = {}
    /\ progress_record = [state |-> "absent", keys |-> {}]
    /\ disk = [i \in 1..Len(Files) |-> 0]
    /\ backup = [i \in 1..Len(Files) |-> None]
    /\ pending = <<>>
    /\ segment_calls = 0
    /\ backend_calls = 0
    /\ last_call = NoCall

\* generate_comment has not been called
Pending == [kind |-> "pending", text |-> <<>>]

RetryIdle ==
    /\ max_retries = 0
    /\ attempt = 0
    /\ model_index = 0
    /\ outcomes = <<>>
    /\ waits = <<>>
    /\ result = Pending
    /\ unit_comment = <<>>

AuxIdle == FormatIdle /\ ProjectIdle /\ RetryIdle

\* what the calls of the formatter leave alone
formatFrame == <<fileVars, projectVars, retryVars>>

\* what main leaves alone
projectFrame == <<language, content, sections, extents, units, file_comment,
                  recVars, formatVars, retryVars>>

\* what generate_comment leaves alone
retryFrame == <<content, sections, extents, units, file_comment, recVars,
                formatVars, projectVars>>

\* ------------------------------------------------------------------------
\* Inputs.  A text is a sequence of at most MaxBlocks blocks, a block being
\* one line repeated; the long runs are what make a unit or a chunk exceed
\* MAX_LINES_PER_UNIT.
\* ------------------------------------------------------------------------
MaxBlocks == 3

LANGUAGES == {"python", "javascript", "vue", "text"}

LBlank     == <<>>
LCode      == <<"w">>
LBody      == <<" ", "w">>
LDef       == <<"d","e","f"," ","f","(",")",":">>
LNestedDef == <<" ","d","e","f"," ","g","(",")",":">>
LDecorator == <<"@","w">>
LFunc      == <<"f","(",")"," ","{">>
LClose     == <<"}">>
LOneLine   == <<"f","(",")","{","{","}","}">>

Blocks(lang) ==
    CASE lang = "python" ->
            {<<LBlank, 1>>, <<LCode, 1>>, <<LBody, 1>>, <<LBody, 3>>,
             <<LBody, MAX_LINES_PER_UNIT>>, <<LDef, 1>>, <<LNestedDef, 1>>,
             <<LDecorator, 1>>}
      [] lang = "javascript" ->
            {<<LBlank, 1>>, <<LBlank, MAX_LINES_PER_UNIT>>, <<LCode, 1>>,
             <<LCode, MAX_LINES_PER_UNIT>>, <<LCode, 2 * MAX_LINES_PER_UNIT + 19>>,
             <<LFunc, 1>>, <<LClose, 1>>, <<LOneLine, 1>>}
      [] lang = "vue" ->
            {<<TagTemplate \o <<">">>, 1>>, <<TagScript \o <<">">>, 1>>,
             <<TagStyle \o <<">">>, 1>>, <<EndTemplate, 1>>, <<EndScript, 1>>,
             <<LBlank, 1>>, <<LCode, 1>>, <<LCode, MAX_LINES_PER_UNIT>>,
             <<LOneLine, 1>>}
      [] OTHER ->
            {<<LBlank, 1>>, <<LCode, 1>>, <<LCode, MAX_LINES_PER_UNIT>>}

RECURSIVE Expand(_, _)
Expand(blocks, k) ==
    IF k > Len(blocks) THEN <<>>
    ELSE [j \in 1..blocks[k][2] |-> blocks[k][1]] \o Expand(blocks, k + 1)

Texts(lang) ==
    {Join(Expand(bs, 1)) : bs \in UNION {[1..n -> Blocks(lang)] : n \in 0..MaxBlocks}}

\* What format_comment returns for a one-line annotation
OneLineComment(lang) ==
    IF lang \in {"javascript", "vue"} THEN <<"/","/"," ","c">> ELSE <<"#"," ","c">>

Init ==
    /\ language \in LANGUAGES
    /\ content \in Texts(language)
    /\ pc = "split"
    /\ sections = <<>>
    /\ extents = <<>>
    /\ units = <<>>
    /\ file_comment = <<>>
    /\ new_lines = <<>>
    /\ origin = <<>>
    /\ processed_lines = {}
    /\ current_line = 0
    /\ unit_index = 0
    /\ output = <<>>
    /\ AuxIdle

\* ------------------------------------------------------------------------
\* Actions
\* ------------------------------------------------------------------------

\* process_file, lines 102-103: units = parser.split_into_units(content)
Segment ==
    /\ pc = "split"
    /\ sections' = IF language = "vue" THEN _find_vue_sections(Split(content))
                   ELSE <<>>
    /\ extents' = IF language = "vue" THEN <<>>
                  ELSE LET lines == Split(content)
                           function_starts == find_function_starts(language, lines)
                           ends == BlockEnds(language, lines, function_starts)
                       IN  [k \in 1..Len(function_starts) |->
                               <<function_starts[k], ends[k]>>]
    /\ units' = split_into_units(language, content)
    /\ pc' = "annotate"
    /\ UNCHANGED <<language, content, file_comment, recVars, auxVars>>

\* process_file, lines 108-148: every unit of at least 3 lines and the file
\* are sent to the backend; unitsOk / fileOk say whether it answers.
Annotate ==
    /\ pc = "annotate"
    /\ \E unitsOk \in BOOLEAN, fileOk \in BOOLEAN :
        /\ units' = [k \in 1..Len(units) |->
                        IF get_line_count(units[k]) < 3 \/ ~unitsOk THEN units[k]
                        ELSE [units[k] EXCEPT !.comment = OneLineComment(language)]]
        /\ file_comment' = IF fileOk THEN OneLineComment(language) ELSE <<>>
    /\ pc' = "reconstruct"
    /\ UNCHANGED <<language, content, sections, extents, recVars, auxVars>>

\* _reconstruct_file, lines 200-214
ReconstructBegin ==
    /\ pc = "reconstruct"
    /\ \E st \in {ReconstructStart(content, file_comment)} :
           /\ new_lines' = st.new_lines
           /\ origin' = st.origin
           /\ processed_lines' = st.processed_lines
           /\ current_line' = st.current_line
    /\ units' = SortByStartLine(units)
    /\ unit_index' = 1
    /\ pc' = "loop"
    /\ UNCHANGED <<language, content, sections, extents, file_comment, output, auxVars>>

\* _reconstruct_file, lines 215-242: one iteration of the loop over the units
ReconstructUnit ==
    /\ pc = "loop"
    /\ unit_index <= Len(units)
    /\ \E st \in {ReconstructStep(Split(content),
                                  [new_lines |-> new_lines, origin |-> origin,
                                   processed_lines |-> processed_lines,
                                   current_line |-> current_line, raised |-> FALSE],
                                  units[unit_index], unit_index)} :
           /\ new_lines' = st.new_lines
           /\ origin' = st.origin
           /\ processed_lines' = st.processed_lines
           /\ current_line' = st.current_line
           /\ pc' = IF st.raised THEN "raised" ELSE "loop"
    /\ unit_index' = unit_index + 1
    /\ UNCHANGED <<language, content, sections, extents, units, file_comment, output, auxVars>>

\* _reconstruct_file, lines 244-250
ReconstructEnd ==
    /\ pc = "loop"
    /\ unit_index > Len(units)
    /\ \E st \in {ReconstructFlush(Split(content),
                                   [new_lines |-> new_lines, origin |-> origin,
                                    processed_lines |-> processed_lines,
                                    current_line |-> current_line, raised |-> FALSE],
                                   unit_index)} :
           /\ new_lines' = st.new_lines
           /\ origin' = st.origin
           /\ current_line' = st.current_line
           /\ output' = Join(st.new_lines)
    /\ pc' = "done"
    /\ UNCHANGED <<language, content, sections, extents, units, file_comment,
                   processed_lines, unit_index, auxVars>>

Next ==
    \/ Segment
    \/ Annotate
    \/ ReconstructBegin
    \/ ReconstructUnit
    \/ ReconstructEnd

Spec == Init /\ [][Next]_vars

\* ------------------------------------------------------------------------
\* _reconstruct_file on its own: any text of at most RMaxLines lines and any
\* list of at most RMaxUnits units with 0 <= start_line <= end_line, the
\* ranges reaching up to one index past len(lines).  The lists are taken in
\* the order of start_line, every order of the units of equal start_line
\* included: the stable sort of line 212 brings any list to one of these.
\* ------------------------------------------------------------------------
RMaxLines == 3
RMaxUnits == 2

RLines == {LBlank, <<"a">>}
RComments == {<<>>, <<"#","a","\n","#","b">>}
RFileComments == {<<>>, <<"#","f">>}

RTexts == {Join(ls) : ls \in UNION {[1..n -> RLines] : n \in 1..RMaxLines}}

RUnitsOf(text) ==
    LET lines == Split(text)
        n     == Len(lines)
    IN  {[CodeUnit(Join(Slice(lines, r[1], r[2] + 1)), r[1], r[2], "chunk", None)
             EXCEPT !.comment = c]
         : r \in {p \in (0..(n + 1)) \X (0..(n + 1)) : p[1] <= p[2]}, c \in RComments}

InitReassemble ==
    /\ language = "text"
    /\ content \in RTexts
    /\ pc = "reconstruct"
    /\ sections = <<>>
    /\ extents = <<>>
    /\ units \in {us \in UNION {[1..n -> RUnitsOf(content)] : n \in 0..RMaxUnits} :
                     \A k \in 1..(Len(us) - 1) : us[k].start_line <= us[k + 1].start_line}
    /\ file_comment \in RFileComments
    /\ new_lines = <<>>
    /\ origin = <<>>
    /\ processed_lines = {}
    /\ current_line = 0
    /\ unit_index = 0
    /\ output = <<>>
    /\ AuxIdle

NextReassemble ==
    \/ ReconstructBegin
    \/ ReconstructUnit
    \/ ReconstructEnd

SpecReassemble == InitReassemble /\ [][NextReassemble]_vars

\* ------------------------------------------------------------------------
\* format_comment and _split_long_line on their own: a comment text is the
\* concatenation of at most MaxTokens tokens (words up to two wrapped lines
\* long, blanks, line breaks, comment markers, the markdown fence).
\* ------------------------------------------------------------------------
MaxTokens == 3

FLANGUAGES == {"python", "javascript", "go", "c", "text"}

Rep(c, n) == [i \in 1..n |-> c]

FTokens ==
    {<<"a">>, Rep("x", max_length), Rep("x", max_length + 1), Rep("x", 2 * max_length + 1),
     <<" ">>, <<NL>>, <<"#">>, <<"/","/">>, <<"/","*">>, <<"*","/">>, <<"*">>, <<"/">>,
     Fence}

RECURSIVE Concat(_)
Concat(ts) == IF ts = <<>> THEN <<>> ELSE Head(ts) \o Concat(Tail(ts))

Comments == {Concat(ts) : ts \in UNION {[1..n -> FTokens] : n \in 0..MaxTokens}}

InitFormat ==
    /\ language \in FLANGUAGES
    /\ comment \in Comments
    /\ pc = "comment"
    /\ split_lines = <<>>
    /\ formatted = <<>>
    /\ reformatted = <<>>
    /\ content = <<>>
    /\ sections = <<>>
    /\ extents = <<>>
    /\ units = <<>>
    /\ file_comment = <<>>
    /\ new_lines = <<>>
    /\ origin = <<>>
    /\ processed_lines = {}
    /\ current_line = 0
    /\ unit_index = 0
    /\ output = <<>>
    /\ ProjectIdle
    /\ RetryIdle

\* _split_long_line(comment, max_length=30)
SplitLongLine ==
    /\ pc = "comment"
    /\ split_lines' = _split_long_line(comment, max_length)
    /\ pc' = "split_long_line"
    /\ UNCHANGED <<language, comment, formatted, reformatted, formatFrame>>

\* process_file, line 127: format_comment(comment, language, "")
FormatComment ==
    /\ pc = "comment"
    /\ formatted' = format_comment(comment, language, <<>>)
    /\ pc' = "formatted"
    /\ UNCHANGED <<language, comment, split_lines, reformatted, formatFrame>>

\* format_comment applied to its own result
FormatAgain ==
    /\ pc = "formatted"
    /\ reformatted' = format_comment(formatted, language, <<>>)
    /\ pc' = "reformatted"
    /\ UNCHANGED <<language, comment, split_lines, formatted, formatFrame>>

NextFormat ==
    \/ SplitLongLine
    \/ FormatComment
    \/ FormatAgain

SpecFormat == InitFormat /\ [][NextFormat]_vars

\* ------------------------------------------------------------------------
\* main and process_project: at most MaxRuns invocations of the program on
\* one project directory.  The text of a file is abstracted to the number
\* of times it was rewritten; what the environment does to a call of
\* process_file (an I/O error at the read, at the backup or at the write,
\* the outcome of the dump of the progress record) is env.
\* ------------------------------------------------------------------------
MaxRuns == 3

\* DocumentationProcessor.__init__(self, project_path, config): no parameter
\* has a default, so a call constructs the object only when it gives both
InitParams == <<"project_path", "config">>
Constructs(given) == Len(given) = Len(InitParams)

\* _load_progress, lines 31-39: the dict of the JSON file, {} when the file
\* is missing or cannot be read or parsed
_load_progress(record, readable) ==
    IF record.state = "json" /\ readable THEN record.keys ELSE {}

\* _save_progress, lines 41-47: the dump replaces the file; an error leaves
\* it as it was (the open failed) or cut short (the write failed)
_save_progress(record, keys, save) ==
    CASE save = "saved"     -> [state |-> "json", keys |-> keys]
      [] save = "unwritten" -> record
      [] save = "corrupt"   -> [state |-> "corrupt", keys |-> {}]

Envs == [fail : {"none", "read", "backup", "write"},
         save : {"saved", "unwritten", "corrupt"}]

\* the file is marked complete and the record saved before the backup and
\* the overwrite, so also when one of them fails
ProcessFileBodyMarkFirst(i, env) ==
    LET marked_first == [completed_files |-> completed_files \cup {Files[i]},
                         progress_record |-> _save_progress(progress_record,
                                                            completed_files \cup {Files[i]},
                                                            env.save)]
        first == <<"read", "split", "request", "mark">>
                 \o (IF env.save = "unwritten" THEN <<>> ELSE <<"progress">>)
    IN  IF env.fail = "read"
        THEN [completed_files |-> completed_files,
              progress_record |-> progress_record,
              disk |-> disk, backup |-> backup,
              returned |-> FALSE, segmented |-> FALSE, requested |-> FALSE,
              written |-> {}, steps |-> <<>>, raised |-> "read"]
        ELSE IF env.fail = "backup"
        THEN marked_first @@ [disk |-> disk, backup |-> backup,
                              returned |-> FALSE, segmented |-> TRUE,
                              requested |-> TRUE, written |-> {"progress"},
                              steps |-> first, raised |-> "backup"]
        ELSE IF env.fail = "write"
        THEN marked_first @@ [disk |-> disk,
                              backup |-> [backup EXCEPT ![i] = disk[i]],
                              returned |-> FALSE, segmented |-> TRUE,
                              requested |-> TRUE, written |-> {"progress", "backup"},
                              steps |-> first \o <<"backup">>, raised |-> "write"]
        ELSE marked_first @@ [disk |-> [disk EXCEPT ![i] = disk[i] + 1],
                              backup |-> [backup EXCEPT ![i] = disk[i]],
                              returned |-> TRUE, segmented |-> TRUE,
                              requested |-> TRUE,
                              written |-> {"progress", "backup", "file"},
                              steps |-> first \o <<"backup", "file">>,
                              raised |-> None]

\* process_file, lines 88-171: the file is not in completed_files
ProcessFileBody(i, env) ==
    LET same == [completed_files |-> completed_files,
                 progress_record |-> progress_record,
                 disk |-> disk, backup |-> backup]
    IN  IF env.fail = "read"
        THEN same @@ [returned |-> FALSE, segmented |-> FALSE,
                      requested |-> FALSE, written |-> {},
                      steps |-> <<>>, raised |-> "read"]
        ELSE IF env.fail = "backup"
        THEN same @@ [returned |-> FALSE, segmented |-> TRUE,
                      requested |-> TRUE, written |-> {},
                      steps |-> <<"read", "split", "request">>,
                      raised |-> "backup"]
        ELSE IF env.fail = "write"
        THEN [same EXCEPT !.backup[i] = disk[i]]
             @@ [returned |-> FALSE, segmented |-> TRUE,
                 requested |-> TRUE, written |-> {"backup"},
                 steps |-> <<"read", "split", "request", "backup">>,
                 raised |-> "write"]
        ELSE [completed_files |-> completed_files \cup {Files[i]},
              progress_record |-> _save_progress(progress_record,
                                                 completed_files \cup {Files[i]},
                                                 env.save),
              disk |-> [disk EXCEPT ![i] = disk[i] + 1],
              backup |-> [backup EXCEPT ![i] = disk[i]],
              returned |-> TRUE, segmented |-> TRUE, requested |-> TRUE,
              written |-> {"backup", "file"}
                          \cup (IF env.save = "unwritten" THEN {} ELSE {"progress"}),
              steps |-> <<"read", "split", "request", "backup", "file", "mark">>
                        \o (IF env.save = "unwritten" THEN <<>> ELSE <<"progress">>),
              raised |-> None]

\* process_file without the test of lines 82-84
ProcessFileAlways(i, env) == ProcessFileBody(i, env)

\* process_file, lines 70-171
process_file(i, env) ==
    IF Files[i] \in completed_files
    THEN [completed_files |-> completed_files,
          progress_record |-> progress_record,
          disk |-> disk, backup |-> backup,
          returned |-> TRUE, segmented |-> FALSE, requested |-> FALSE,
          written |-> {}, steps |-> <<>>, raised |-> None]
    ELSE ProcessFileBody(i, env)

InitProject ==
    /\ language = "text"
    /\ content = <<>>
    /\ pc = "shell"
    /\ sections = <<>>
    /\ extents = <<>>
    /\ units = <<>>
    /\ file_comment = <<>>
    /\ new_lines = <<>>
    /\ origin = <<>>
    /\ processed_lines = {}
    /\ current_line = 0
    /\ unit_index = 0
    /\ output = <<>>
    /\ AuxIdle

\* python -m ph_coder_docstr --project P [--clean-backups] [--dry-run]:
\* main, lines 13-49
Invoke ==
    /\ pc \in {"shell", "exited"}
    /\ runs < MaxRuns
    /\ runs' = runs + 1
    /\ args' \in [clean_backups : BOOLEAN, dry_run : BOOLEAN]
    /\ env_ok' \in BOOLEAN
    /\ exit_code' = None
    /\ exception' = None
    /\ config_loaded' = FALSE
    /\ completed_files' = {}
    /\ marked' = {}
    /\ pending' = <<>>
    /\ segment_calls' = 0
    /\ backend_calls' = 0
    /\ last_call' = NoCall
    /\ pc' = "main"
    /\ UNCHANGED <<progress_record, disk, backup, projectFrame>>

\* main, lines 53-57 and 80-84: DocumentationProcessor(args.project) gives
\* one argument; the TypeError is caught by "except Exception"
MainCleanBackups ==
    /\ pc = "main"
    /\ args.clean_backups
    /\ ~Constructs(<<"project_path">>)
    /\ exception' = "TypeError"
    /\ exit_code' = 1
    /\ pc' = "exited"
    /\ UNCHANGED <<runs, args, env_ok, config_loaded, completed_files, marked,
                   progress_record, disk, backup, pending, segment_calls,
                   backend_calls, last_call, projectFrame>>

\* main, lines 61 and 69-76: Config() raises ValueError
MainConfigError ==
    /\ pc = "main"
    /\ ~args.clean_backups
    /\ ~env_ok
    /\ exception' = "ValueError"
    /\ exit_code' = 1
    /\ pc' = "exited"
    /\ UNCHANGED <<runs, args, env_ok, config_loaded, completed_files, marked,
                   progress_record, disk, backup, pending, segment_calls,
                   backend_calls, last_call, projectFrame>>

\* main, lines 61-67; __init__, lines 25-29; process_project, lines 254-272
MainStart ==
    /\ pc = "main"
    /\ ~args.clean_backups
    /\ env_ok
    /\ Constructs(<<"project_path", "config">>)
    /\ config_loaded' = TRUE
    /\ \E readable \in BOOLEAN :
           /\ completed_files' = _load_progress(progress_record, readable)
           /\ marked' = _load_progress(progress_record, readable)
    /\ pending' = [i \in 1..Len(Files) |-> i]
    /\ pc' = "project"
    /\ UNCHANGED <<runs, args, env_ok, exit_code, exception, progress_record,
                   disk, backup, segment_calls, backend_calls, last_call,
                   projectFrame>>

\* process_project, lines 278-282: one iteration of the loop over code_files
ProcessFile ==
    /\ pc = "project"
    /\ pending # <<>>
    /\ \E env \in Envs :
         \E r \in {process_file(Head(pending), env)} :
           /\ last_call' = [file |-> Files[Head(pending)],
                            recorded |-> Files[Head(pending)] \in completed_files,
                            returned |-> r.returned,
                            segmented |-> r.segmented,
                            requested |-> r.requested,
                            written |-> r.written,
                            steps |-> r.steps,
                            raised |-> r.raised,
                            index |-> Head(pending),
                            before |-> <<completed_files, progress_record,
                                         disk, backup>>,
                            after |-> <<r.completed_files, r.progress_record,
                                        r.disk, r.backup>>]
           /\ completed_files' = r.completed_files
           /\ marked' = marked \cup (r.completed_files \ completed_files)
           /\ progress_record' = r.progress_record
           /\ disk' = r.disk
           /\ backup' = r.backup
           /\ segment_calls' = segment_calls + (IF r.segmented THEN 1 ELSE 0)
           /\ backend_calls' = backend_calls + (IF r.requested THEN 1 ELSE 0)
    /\ pending' = Tail(pending)
    /\ UNCHANGED <<pc, runs, args, env_ok, exit_code, exception, config_loaded,
                   projectFrame>>

\* process_project returns (lines 284-290) and main ends: exit status 0
MainEnd ==
    /\ pc = "project"
    /\ pending = <<>>
    /\ exit_code' = 0
    /\ pc' = "exited"
    /\ UNCHANGED <<runs, args, env_ok, exception, config_loaded, completed_files,
                   marked, progress_record, disk, backup, pending, segment_calls,
                   backend_calls, last_call, projectFrame>>

\* main, lines 77-79: the user interrupts the run between two files
Interrupt ==
    /\ pc = "project"
    /\ exception' = "KeyboardInterrupt"
    /\ exit_code' = 0
    /\ pc' = "exited"
    /\ UNCHANGED <<runs, args, env_ok, config_loaded, completed_files, marked,
                   progress_record, disk, backup, pending, segment_calls,
                   backend_calls, last_call, projectFrame>>

NextProject ==
    \/ Invoke
    \/ MainCleanBackups
    \/ MainConfigError
    \/ MainStart
    \/ ProcessFile
    \/ MainEnd
    \/ Interrupt

SpecProject == InitProject /\ [][NextProject]_vars

\* ------------------------------------------------------------------------
\* generate_comment (api_client.py 94-124) called by process_file for one
\* unit (processor.py 118-132): the backend answers each call with a text,
\* with an error, or with a response without text.
\* ------------------------------------------------------------------------
MaxRetries == 3

\* the texts of response.choices[0].message.content
Replies == {<<"c">>, <<" ","c","\n">>, <<>>, <<"/","/"," ","c">>}

RECURSIVE Pow2(_)
Pow2(n) == IF n = 0 THEN 1 ELSE 2 * Pow2(n - 1)

\* the handler waits after every failed attempt
AfterFailureAlwaysWait(a, retries) == "sleep"

\* lines 113-122: what the except clause does after the failure of attempt a
AfterFailure(a, retries) == IF a < retries - 1 THEN "sleep" ELSE "return"

InitRetry ==
    /\ language \in {"python", "c"}
    /\ pc = "attempt"
    /\ max_retries \in 0..MaxRetries
    /\ attempt = 0
    /\ model_index \in {0, 1}
    /\ outcomes = <<>>
    /\ waits = <<>>
    /\ result = Pending
    /\ unit_comment = <<>>
    /\ content = <<>>
    /\ sections = <<>>
    /\ extents = <<>>
    /\ units = <<>>
    /\ file_comment = <<>>
    /\ new_lines = <<>>
    /\ origin = <<>>
    /\ processed_lines = {}
    /\ current_line = 0
    /\ unit_index = 0
    /\ output = <<>>
    /\ FormatIdle
    /\ ProjectIdle

\* lines 94-111: one pass of the loop body up to the backend's answer; a text
\* is returned stripped, an error or a response without text (None has no
\* strip) enters the except clause
Request ==
    /\ pc = "attempt"
    /\ attempt < max_retries
    /\ model_index' = model_index + 1
    /\ \/ \E reply \in Replies :
             /\ outcomes' = Append(outcomes, "text")
             /\ result' = [kind |-> "str", text |-> Strip(reply)]
             /\ pc' = "returned"
       \/ \E error \in {"error", "no text"} :
             /\ outcomes' = Append(outcomes, error)
             /\ result' = result
             /\ pc' = "except"
    /\ UNCHANGED <<language, max_retries, attempt, waits, unit_comment, retryFrame>>

\* lines 115-119: time.sleep(2 ** attempt), then the next pass
Backoff ==
    /\ pc = "except"
    /\ AfterFailure(attempt, max_retries) = "sleep"
    /\ waits' = Append(waits, Pow2(attempt))
    /\ attempt' = attempt + 1
    /\ pc' = "attempt"
    /\ UNCHANGED <<language, max_retries, model_index, outcomes, result,
                   unit_comment, retryFrame>>

\* lines 120-122: return None after the last attempt
GiveUp ==
    /\ pc = "except"
    /\ AfterFailure(attempt, max_retries) = "return"
    /\ result' = [kind |-> "None", text |-> <<>>]
    /\ pc' = "returned"
    /\ UNCHANGED <<language, max_retries, attempt, model_index, outcomes, waits,
                   unit_comment, retryFrame>>

\* line 124: the loop ended without a return
LoopEnd ==
    /\ pc = "attempt"
    /\ attempt >= max_retries
    /\ result' = [kind |-> "None", text |-> <<>>]
    /\ pc' = "returned"
    /\ UNCHANGED <<language, max_retries, attempt, model_index, outcomes, waits,
                   unit_comment, retryFrame>>

\* process_file, lines 124-132: "if comment:" (None and "" are false), then
\* the unit is appended
AppendUnit ==
    /\ pc = "returned"
    /\ unit_comment' = IF result.kind = "str" /\ result.text # <<>>
                       THEN format_comment(result.text, language, <<>>)
                       ELSE unit_comment
    /\ pc' = "appended"
    /\ UNCHANGED <<language, max_retries, attempt, model_index, outcomes, waits,
                   result, retryFrame>>

NextRetry ==
    \/ Request
    \/ Backoff
    \/ GiveUp
    \/ LoopEnd
    \/ AppendUnit

SpecRetry == InitRetry /\ [][NextRetry]_vars

\* ------------------------------------------------------------------------
\* Properties
\* ------------------------------------------------------------------------
Lines == Split(content)
LineCount == Len(Lines)
Segmented == pc # "split"

\* split_into_units has just returned
JustSegmented == pc = "annotate"

\* The units whose range [start_line, end_line] holds line index i
Covering(i) == {k \in 1..Len(units) : units[k].start_line <= i /\ i <= units[k].end_line}

NonBlankLine(i) == \E j \in 1..Len(At(Lines, i)) : ~IsSpace(At(Lines, i)[j])

\* C1: the line ranges of the units returned by split_into_units partition the
\* line indices 0..lineCount-1, no gaps and no overlaps between any two units.
\* Stated here in the form the claim implies on every input: no line index
\* lies in the ranges of two units, and every line with a character that
\* is not whitespace, of a text that is not a templated document, lies in the
\* range of a unit.
C1_RangesPartitionLines ==
    Segmented =>
        \A i \in 0..(LineCount - 1) :
            /\ Cardinality(Covering(i)) <= 1
            /\ (language # "vue" /\ NonBlankLine(i)) => Cardinality(Covering(i)) = 1

\* C2: with every unit's comment and the file comment left empty,
\* _reconstruct_file(text, split_into_units(text), "") returns the text.
C2_RoundTrip ==
    (/\ pc = "done"
     /\ file_comment = <<>>
     /\ \A k \in 1..Len(units) : units[k].comment = <<>>)
    => output = content

\* C3: every unit returned by split_into_units, for every language (vue
\* included), has at most MAX_LINES_PER_UNIT lines.
C3_UnitSizeBound ==
    Segmented => \A k \in 1..Len(units) :
                    units[k].end_line - units[k].start_line + 1 <= MAX_LINES_PER_UNIT

\* --- the reassembler ------------------------------------------------------

\* The positions of origin holding original line i
LineEntries(i) == {p \in 1..Len(origin) : origin[p][1] = "line" /\ origin[p][2] = i}

\* The positions of origin holding a line of the comment of unit k
CommentEntries(k) == {p \in 1..Len(origin) : origin[p][1] = "comment" /\ origin[p][2] = k}

\* new_lines holds what origin says: original lines verbatim, comment lines
OriginFaithful ==
    /\ Len(origin) = Len(new_lines)
    /\ \A p \in 1..Len(origin) :
          /\ origin[p][1] = "line" =>
                origin[p][2] \in 0..(LineCount - 1) /\ new_lines[p] = At(Lines, origin[p][2])
          /\ origin[p][1] = "comment" =>
                new_lines[p] = Split(units[origin[p][2]].comment)[origin[p][3]]

\* The original lines appear in the output in increasing order of their index
InOriginalOrder ==
    \A p, q \in 1..Len(origin) :
        (p < q /\ origin[p][1] = "line" /\ origin[q][1] = "line")
        => origin[p][2] < origin[q][2]

\* Unit k's span, re-read from the original lines, is entirely whitespace
BlankUnit(k) ==
    \A i \in units[k].start_line..units[k].end_line :
        i < LineCount => \A j \in 1..Len(At(Lines, i)) : IsSpace(At(Lines, i)[j])

InBlankSpan(i) ==
    \E k \in 1..Len(units) :
        BlankUnit(k) /\ units[k].start_line <= i /\ i <= units[k].end_line

C5_CommentRightAfterUnit ==
    pc = "done" =>
        \A k \in 1..Len(units) :
            (~BlankUnit(k) /\ units[k].comment # <<>>) =>
                LET last == Min2(units[k].end_line, LineCount - 1)
                    n    == Len(Split(units[k].comment))
                IN  \E p \in LineEntries(last) :
                        \A j \in 1..n :
                            p + j <= Len(origin) /\ origin[p + j] = <<"comment", k, j>>

\* The file comment is to be shown: it is non-empty and the text has a
\* character that is not whitespace
FileCommentDue ==
    file_comment # <<>> /\ \E j \in 1..Len(content) : ~IsSpace(content[j])

\* C6: _reconstruct_file emits the file comment once, as the first lines of the
\* output followed by exactly one empty line, if and only if the file comment
\* is non-empty and the original text is not entirely whitespace; otherwise
\* the output holds no file comment and no added blank line.
C6_FileCommentFirstIffDue ==
    pc \in {"loop", "done"} =>
        LET fl == Split(file_comment)
            n  == Len(fl)
        IN  /\ Len(origin) = Len(new_lines)
            /\ pc = "done" => output = Join(new_lines)
            /\ IF FileCommentDue
               THEN /\ Len(origin) >= n + 1
                    /\ \A j \in 1..n : origin[j] = <<"file", j>> /\ new_lines[j] = fl[j]
                    /\ origin[n + 1] = <<"sep">> /\ new_lines[n + 1] = <<>>
                    /\ \A p \in (n + 2)..Len(origin) : origin[p][1] \notin {"file", "sep"}
               ELSE \A p \in 1..Len(origin) : origin[p][1] \notin {"file", "sep"}

\* A file comment was put before the lines of a text with code and a unit
C6_Witness ==
    /\ pc = "done"
    /\ FileCommentDue
    /\ Len(units) >= 1
    /\ origin[1] = <<"file", 1>>
    /\ \E p \in 1..Len(origin) : origin[p][1] = "line"

\* C7: a unit whose span, re-read from the original lines, is entirely
\* whitespace adds no line and no comment line to the output, its line indices
\* are consumed so that no later flush emits them, and every line before and
\* after it (outside the whitespace-only units) is still emitted exactly once.
C7_BlankUnitContributesNothing ==
    pc \in {"loop", "done"} =>
        \A k \in 1..Len(units) :
            (BlankUnit(k) /\ k < unit_index) =>
                /\ CommentEntries(k) = {}
                /\ \A i \in units[k].start_line..units[k].end_line :
                      i < LineCount =>
                          /\ i \in processed_lines
                          /\ \A p \in LineEntries(i) : origin[p][3] < k
                /\ pc = "done" =>
                      \A i \in 0..(LineCount - 1) :
                          ((i < units[k].start_line \/ i > units[k].end_line)
                              /\ ~InBlankSpan(i))
                          => Cardinality(LineEntries(i)) = 1

\* A commented whitespace-only unit in the middle of a text was left out and
\* the lines around it were kept
C7_Witness ==
    /\ pc = "done"
    /\ \E k \in 1..Len(units) :
          /\ BlankUnit(k)
          /\ units[k].comment # <<>>
          /\ 0 < units[k].start_line
          /\ units[k].end_line < LineCount - 1
          /\ LineEntries(units[k].start_line) = {}
          /\ NonBlankLine(units[k].start_line - 1)
          /\ NonBlankLine(units[k].end_line + 1)
          /\ Cardinality(LineEntries(units[k].start_line - 1)) = 1
          /\ Cardinality(LineEntries(units[k].end_line + 1)) = 1

\* --- the extents of the declarations -------------------------------------

\* The number of whitespace characters a line begins with
LeadingWidth(line) ==
    CHOOSE n \in 0..Len(line) :
        /\ \A j \in 1..n : IsSpace(line[j])
        /\ n = Len(line) \/ ~IsSpace(line[n + 1])

\* The non-blank lines after s that are indented no deeper than line s
Dedents(s) ==
    {i \in (s + 1)..(LineCount - 1) :
        NonBlankLine(i) /\ LeadingWidth(At(Lines, i)) <= LeadingWidth(At(Lines, s))}

\* C8: for a declaration at line s, _find_python_block_end returns i-1 for the
\* first i > s of a non-blank line indented no deeper than line s, and
\* lineCount-1 if there is none; a declaration with 3 deeper body lines and 1
\* dedented line gives a unit of exactly the declaration and the 3 body lines.
C8_PythonBlockEnd ==
    (JustSegmented /\ language = "python") =>
        /\ \A k \in 1..Len(extents) :
              extents[k][2] = IF Dedents(extents[k][1]) = {} THEN LineCount - 1
                              ELSE MinOf(Dedents(extents[k][1])) - 1
        /\ Lines = <<LDef, LBody, LBody, LBody, LCode>> =>
              /\ extents = << <<0, 3>> >>
              /\ \E k \in 1..Len(units) :
                    /\ units[k].unit_type = "function"
                    /\ units[k].start_line = 0 /\ units[k].end_line = 3
              /\ \E k \in 1..Len(units) :
                    units[k].start_line = 4 /\ units[k].end_line = 4

\* The 5-line block was segmented
C8_Witness ==
    /\ JustSegmented
    /\ language = "python"
    /\ Lines = <<LDef, LBody, LBody, LBody, LCode>>
    /\ Len(units) = 2

\* The braces in the lines from s on, as <<line, column>>
BracesFrom(s) ==
    LET hasBrace(i) == \E j \in 1..Len(At(Lines, i)) : At(Lines, i)[j] \in {"{", "}"}
        braceLines  == {i \in s..(LineCount - 1) : hasBrace(i)}
    IN  UNION {{<<i, j>> : j \in {c \in 1..Len(At(Lines, i)) : At(Lines, i)[c] \in {"{", "}"}}}
               : i \in braceLines}

UpTo(p, q) == p[1] < q[1] \/ (p[1] = q[1] /\ p[2] <= q[2])

\* The nesting depth after the brace at p, braces being the braces counted
Depth(braces, p) ==
    Cardinality({q \in braces : UpTo(q, p) /\ At(Lines, q[1])[q[2]] = "{"})
    - Cardinality({q \in braces : UpTo(q, p) /\ At(Lines, q[1])[q[2]] = "}"})

\* The lines where the depth counted from line s is back at zero after having
\* been positive
BackAtZero(s) ==
    LET braces == BracesFrom(s)
    IN  {p[1] : p \in {p \in braces :
                          /\ Depth(braces, p) = 0
                          /\ \E q \in braces : UpTo(q, p) /\ Depth(braces, q) > 0}}

\* C9: for a declaration at line s, _find_brace_block_end returns the first
\* line at which the nesting depth, counted over every character from line s
\* on, is back at zero after having been positive, and lineCount-1 if that
\* never happens; one line with balanced nested braces is a block of its own.
C9_BraceBlockEnd ==
    (JustSegmented /\ language = "javascript") =>
        \A k \in 1..Len(extents) :
            /\ extents[k][2] = IF BackAtZero(extents[k][1]) = {} THEN LineCount - 1
                               ELSE MinOf(BackAtZero(extents[k][1]))
            /\ At(Lines, extents[k][1]) = LOneLine =>
                  /\ extents[k][2] = extents[k][1]
                  /\ \E j \in 1..Len(units) :
                        /\ units[j].unit_type = "function"
                        /\ units[j].start_line = extents[k][1]
                        /\ units[j].end_line = extents[k][1]

\* A block over several lines with a nested one-line block inside, and a block
\* that is never closed
C9_Witness ==
    /\ JustSegmented
    /\ language = "javascript"
    /\ \E k, j \in 1..Len(extents) :
          /\ extents[k][2] > extents[k][1]
          /\ BackAtZero(extents[k][1]) # {}
          /\ At(Lines, extents[j][1]) = LOneLine
          /\ extents[k][1] < extents[j][1] /\ extents[j][2] < extents[k][2]

\* --- templated documents -------------------------------------------------

\* C10: in a templated document every unit of a script section spanning the
\* outer lines [s, e] is tagged "script", has s <= startLine <= endLine <= e
\* and holds the outer lines startLine..endLine joined by newline; a template
\* or style section gives one chunk unit tagged with that section.
C10_VueSections ==
    (JustSegmented /\ language = "vue") =>
        /\ \A k \in 1..Len(units) :
              /\ units[k].section \in {"script", "template", "style"}
              /\ units[k].section = "script" =>
                    /\ \E j \in 1..Len(sections) :
                          /\ sections[j][1] = "script"
                          /\ sections[j][2] <= units[k].start_line
                          /\ units[k].start_line <= units[k].end_line
                          /\ units[k].end_line <= sections[j][3]
                    /\ units[k].content =
                          Join([i \in 1..(units[k].end_line - units[k].start_line + 1)
                                   |-> At(Lines, units[k].start_line + i - 1)])
        /\ \A t \in {"template", "style"} :
              /\ Cardinality({k \in 1..Len(units) : units[k].section = t})
                    = Cardinality({j \in 1..Len(sections) : sections[j][1] = t})
              /\ \A j \in 1..Len(sections) :
                    sections[j][1] = t =>
                        \E k \in 1..Len(units) :
                            /\ units[k].section = t
                            /\ units[k].unit_type = "chunk"
                            /\ units[k].start_line = sections[j][2]
                            /\ units[k].end_line = sections[j][3]

\* A function of a script section that does not start the file was made a unit
C10_Witness ==
    /\ JustSegmented
    /\ language = "vue"
    /\ \E k \in 1..Len(units) :
          /\ units[k].section = "script"
          /\ units[k].unit_type = "function"
          /\ units[k].start_line > 0
          /\ units[k].content = LOneLine

\* --- segmentation always returns -----------------------------------------

\* Unit k is a range of lines of the text and holds those lines
WellFormedUnit(k) ==
    /\ 0 <= units[k].start_line
    /\ units[k].start_line <= units[k].end_line
    /\ units[k].end_line <= LineCount - 1
    /\ units[k].unit_type \in {"function", "chunk"}
    /\ units[k].content =
          Join([i \in 1..(units[k].end_line - units[k].start_line + 1)
                   |-> At(Lines, units[k].start_line + i - 1)])

\* C11: split_into_units returns a unit list for every text and every
\* language tag (the empty text, unmatched braces, no recognizable structure
\* and a language without patterns included): every unit returned is a range
\* of lines of the text, a block that is never closed runs to the last line,
\* a language without patterns gives the uniform chunks only, and the calls
\* of split_into_units nest at most once.
C11_SegmentAlwaysReturns ==
    JustSegmented =>
        /\ \A k \in 1..Len(units) : WellFormedUnit(k)
        /\ NestingDepth(language, content) <= 1
        /\ (language # "vue" /\ FUNCTION_PATTERNS(language) = <<>>) =>
              \A k \in 1..Len(units) :
                  /\ units[k].unit_type = "chunk"
                  /\ units[k].start_line % MAX_LINES_PER_UNIT = 0
        /\ language = "javascript" =>
              \A k \in 1..Len(extents) :
                  BackAtZero(extents[k][1]) = {} => extents[k][2] = LineCount - 1

\* A block whose brace is never closed was made a unit that runs to the last
\* line of a text of several lines
C11_Witness ==
    /\ JustSegmented
    /\ language = "javascript"
    /\ LineCount > 1
    /\ \E k \in 1..Len(extents) :
          /\ BackAtZero(extents[k][1]) = {}
          /\ extents[k][2] = LineCount - 1
          /\ \E j \in 1..Len(units) :
                units[j].start_line = extents[k][1] /\ units[j].end_line = LineCount - 1

\* --- the comment formatter ------------------------------------------------

\* C12: format_comment is idempotent: for every language and every comment text, formatting the formatted comment again gives the formatted comment, the block comment of the c, cpp and cuda languages included.
C12_FormatIdempotent ==
    pc = "reformatted" => reformatted = formatted

\* --- the progress record and the command line ------------------------------

\* C13: once a file's path is in the progress record the run holds (marked complete earlier in the run, or loaded from the persisted record of an earlier run), a call of process_file for it segments nothing, requests no annotation, writes neither the file nor its backup nor the record, and returns True; and a path the run holds stays held.
C13_CompletedFileIsSkipped ==
    /\ (last_call.file # None /\ last_call.recorded) =>
          /\ last_call.returned
          /\ ~last_call.segmented
          /\ ~last_call.requested
          /\ last_call.written = {}
    /\ pc = "project" => marked \subseteq completed_files

C13_Witness ==
    /\ runs >= 2
    /\ last_call.file = "a.py"
    /\ last_call.recorded
    /\ last_call.returned
    /\ progress_record.state = "json"
    /\ "a.py" \in progress_record.keys
    /\ disk[1] = 1
    /\ backup[1] = 0
    /\ segment_calls = 0

\* C14: invoked with --project and --clean-backups, main deletes the backups without loading the API configuration and without calling the segmenter or the annotation backend, and exits with status 0; status 1 occurs only on a configuration error or an unhandled error.
C14_CleanBackupsExitsZero ==
    /\ (pc = "exited" /\ args.clean_backups) =>
          /\ exit_code = 0
          /\ exception = None
          /\ ~config_loaded
          /\ segment_calls = 0
          /\ backend_calls = 0
    /\ (pc = "exited" /\ exit_code = 1) => exception \notin {None, "KeyboardInterrupt"}

\* --- blocks longer than MAX_LINES_PER_UNIT ---------------------------------

\* The blocks of more than MAX_LINES_PER_UNIT lines
LongExtents ==
    {k \in 1..Len(extents) : extents[k][2] - extents[k][1] + 1 > MAX_LINES_PER_UNIT}

\* The j-th run of MAX_LINES_PER_UNIT lines of block k, cut at the block's end
AlignedRange(k, j) ==
    <<extents[k][1] + (j - 1) * MAX_LINES_PER_UNIT,
      Min2(extents[k][1] + j * MAX_LINES_PER_UNIT - 1, extents[k][2])>>

RangeHasText(r) == \E i \in r[1]..r[2] : NonBlankLine(i)

\* sub is the list of chunk units with the ranges AlignedRange(k, js[1]),
\* AlignedRange(k, js[2]), ..., each holding its lines, and all are returned
IsResplit(k, sub, js) ==
    /\ Len(sub) = Len(js)
    /\ \A i \in 1..Len(js) :
          /\ sub[i].unit_type = "chunk"
          /\ <<sub[i].start_line, sub[i].end_line>> = AlignedRange(k, js[i])
          /\ sub[i].content = Join(Slice(Lines, sub[i].start_line, sub[i].end_line + 1))
          /\ \E u \in 1..Len(units) : units[u] = sub[i]
    /\ \A u \in 1..Len(units) :
          units[u].unit_type = "function" =>
              <<units[u].start_line, units[u].end_line>> # extents[k]

\* C15 as stated: a block of more than M lines is replaced by the consecutive sub-units of exactly M lines (the last may be shorter), all chunks, contiguous, at the absolute offsets, that together cover every line of the block.
C15_LongBlockResplit ==
    (JustSegmented /\ language # "vue") =>
        \A k \in LongExtents :
            IsResplit(k, FunctionUnits(Lines, extents[k][1], extents[k][2]),
                      [j \in 1..ChunkCount(extents[k][2] - extents[k][1] + 1) |-> j])

\* C15, amended: a block of more than M lines is replaced by the consecutive runs of exactly M lines (the last may be shorter) that hold a character that is not whitespace, all chunks, in order, at the absolute offsets; the runs left out are all whitespace, so every other line of the block lies in exactly one sub-unit.
C15_LongBlockResplitExceptBlank ==
    (JustSegmented /\ language # "vue") =>
        \A k \in LongExtents :
            LET hasText(j) == RangeHasText(AlignedRange(k, j))
            IN  IsResplit(k, FunctionUnits(Lines, extents[k][1], extents[k][2]),
                          SelectSeq([j \in 1..ChunkCount(extents[k][2] - extents[k][1] + 1) |-> j],
                                    hasText))

C15_Witness ==
    /\ JustSegmented
    /\ language = "javascript"
    /\ \E k \in LongExtents :
          /\ extents[k][1] > 0
          /\ extents[k][2] - extents[k][1] + 1 = 2 * MAX_LINES_PER_UNIT + 20
          /\ \E a, b, c \in 1..Len(units) :
                /\ <<units[a].start_line, units[a].end_line>> = AlignedRange(k, 1)
                /\ <<units[b].start_line, units[b].end_line>> = AlignedRange(k, 2)
                /\ <<units[c].start_line, units[c].end_line>> = AlignedRange(k, 3)
                /\ units[a].unit_type = "chunk"
                /\ units[c].end_line - units[c].start_line + 1 = 20
          /\ Len(FunctionUnits(Lines, extents[k][1], extents[k][2])) = 3

\* --- the lines outside every block ------------------------------------------

\* Line i lies in no block
Outside(i) == \A k \in 1..Len(extents) : i < extents[k][1] \/ extents[k][2] < i

\* C16: for a language other than vue and a text with at least one declaration, every line outside all blocks that holds a character that is not whitespace lies in exactly one unit (so no chunk with such a character was dropped), no outside line lies in two units, and a unit holding an outside line is a chunk, a contiguous range of at most M lines none of which lies in a block, with the lines of its range as content.
C16_RemainingLinesChunked ==
    (JustSegmented /\ language # "vue" /\ Len(extents) >= 1) =>
        /\ \A i \in 0..(LineCount - 1) :
              Outside(i) =>
                  /\ Cardinality(Covering(i)) <= 1
                  /\ NonBlankLine(i) => Cardinality(Covering(i)) = 1
        /\ \A k \in 1..Len(units) :
              (\E i \in units[k].start_line..units[k].end_line : Outside(i)) =>
                  /\ units[k].unit_type = "chunk"
                  /\ units[k].end_line - units[k].start_line + 1 <= MAX_LINES_PER_UNIT
                  /\ \A j \in units[k].start_line..units[k].end_line : Outside(j)
                  /\ units[k].content = Join(Slice(Lines, units[k].start_line, units[k].end_line + 1))

C16_Witness ==
    /\ JustSegmented
    /\ language = "javascript"
    /\ Len(extents) >= 1
    /\ \E i \in 0..(LineCount - 1), j \in 0..(LineCount - 1) :
          /\ Outside(i) /\ NonBlankLine(i) /\ Cardinality(Covering(i)) = 1
          /\ \E k \in Covering(i) :
                units[k].end_line - units[k].start_line + 1 = MAX_LINES_PER_UNIT
          /\ Outside(j) /\ Covering(j) = {}
          /\ \E e \in 1..Len(extents) : i < extents[e][1] /\ extents[e][2] < j

\* --- the sections of a templated document ----------------------------------

\* The opening and the closing marker of a section type
OpeningTag(t) ==
    CASE t = "template" -> TagTemplate [] t = "script" -> TagScript [] t = "style" -> TagStyle

ClosingTag(t) ==
    CASE t = "template" -> EndTemplate [] t = "script" -> EndScript [] t = "style" -> EndStyle

\* Section j was closed by a marker (it does not run to the end of the file)
ClosedSection(j) == sections[j][3] + 1 <= LineCount - 1

\* C17: in _find_vue_sections every closed section has the type of the opening marker on the line before its first line, ends on the line before a closing marker of that same type, holds no closing marker of that type in between, and is not empty (adjacent markers give no section); also when an opening marker occurs inside an open section.
C17_SectionBetweenMatchingMarkers ==
    (JustSegmented /\ language = "vue") =>
        \A j \in 1..Len(sections) :
            /\ sections[j][2] <= sections[j][3]
            /\ ClosedSection(j) =>
                  /\ sections[j][2] >= 1
                  /\ StartsWith(Strip(At(Lines, sections[j][2] - 1)), OpeningTag(sections[j][1]))
                  /\ Strip(At(Lines, sections[j][3] + 1)) = ClosingTag(sections[j][1])
                  /\ \A i \in sections[j][2]..sections[j][3] :
                        Strip(At(Lines, i)) # ClosingTag(sections[j][1])

\* --- units beyond the end of the text ---------------------------------------

\* C18: for any list of units with 0 <= start_line <= end_line, overlapping units and units that start or end at or beyond the number of lines included, _reconstruct_file returns without raising, and every original line in the range of no unit is in the output verbatim, exactly once, in its place among the original lines.
C18_ReconstructNeverRaises ==
    /\ pc # "raised"
    /\ pc = "done" =>
          /\ InOriginalOrder
          /\ \A i \in 0..(LineCount - 1) :
                Covering(i) = {} =>
                    /\ Cardinality(LineEntries(i)) = 1
                    /\ \A p \in LineEntries(i) : new_lines[p] = At(Lines, i)

\* --- the width of the comment lines ----------------------------------------

\* The text of a rendered comment line: what follows the marker
CommentText(line) ==
    IF StartsWith(line, <<"/","/"," ">>) \/ StartsWith(line, <<" ","*"," ">>)
    THEN SubSeq(line, 4, Len(line))
    ELSE IF StartsWith(line, <<"#"," ">>) THEN SubSeq(line, 3, Len(line))
    ELSE <<>>

\* C19: every line returned by _split_long_line(text, 30) has at most 30 characters, a text that is one token of more than 60 characters without whitespace included; so every line of a comment rendered by format_comment carries at most 30 characters after its marker.
C19_LinesWithinMaxLength ==
    /\ pc = "split_long_line" =>
          \A k \in 1..Len(split_lines) : Len(split_lines[k]) <= max_length
    /\ pc = "formatted" =>
          \A k \in 1..Len(Split(formatted)) :
              Len(CommentText(Split(formatted)[k])) <= max_length

\* --- retries of the backend call -------------------------------------------

Failed(o) == o \in {"error", "no text"}

\* C20: generate_comment makes at most max_retries backend calls, returns the text of the first successful call and makes no call after it, sleeps 2^attempt seconds only between a failed attempt and the next one and never after the last, returns None exactly when all max_retries calls failed, and returns in every case, so that process_file appends the unit, without a comment when None was returned.
C20_RetriesBounded ==
    /\ Len(outcomes) <= max_retries
    /\ \A k \in 1..(Len(outcomes) - 1) : Failed(outcomes[k])
    /\ \A k \in 1..Len(waits) : waits[k] = Pow2(k - 1) /\ k < Len(outcomes) + (IF pc = "attempt" THEN 1 ELSE 0)
    /\ Len(waits) = attempt
    /\ pc \in {"returned", "appended"} =>
          /\ result.kind \in {"None", "str"}
          /\ Len(waits) = (IF Len(outcomes) = 0 THEN 0 ELSE Len(outcomes) - 1)
          /\ result.kind = "str" => outcomes[Len(outcomes)] = "text"
          /\ result.kind = "None" <=>
                (Len(outcomes) = max_retries /\ \A k \in 1..Len(outcomes) : Failed(outcomes[k]))
    /\ pc = "appended" =>
          (unit_comment # <<>> => (result.kind = "str" /\ result.text # <<>>))

C20_Witness ==
    /\ pc = "appended"
    /\ max_retries = 3
    /\ outcomes = <<"error", "no text", "error">>
    /\ waits = <<1, 2>>
    /\ result.kind = "None"
    /\ unit_comment = <<>>

\* --- the order of the writes of process_file --------------------------------

\* The position of step x in the steps of the latest call, 0 when absent
StepAt(x) ==
    IF \E k \in 1..Len(last_call.steps) : last_call.steps[k] = x
    THEN CHOOSE k \in 1..Len(last_call.steps) : last_call.steps[k] = x
    ELSE 0

\* C21: a call of process_file that overwrites the file has written the backup before, with the content it read; the path is marked complete and the record dumped only after the overwrite; when the read, the backup or the overwrite raises, process_file returns False before any mark, with the record, in memory and on disk, as it was, the path not in it, so the file is not skipped on a later load; and a path is in a record only when its file was overwritten.
C21_BackupOverwriteRecordInOrder ==
    /\ last_call.file # None =>
          /\ StepAt("file") > 0 =>
                /\ 0 < StepAt("backup") /\ StepAt("backup") < StepAt("file")
                /\ last_call.after[4][last_call.index] = last_call.before[3][last_call.index]
                /\ last_call.after[3][last_call.index] = last_call.before[3][last_call.index] + 1
          /\ StepAt("mark") > 0 => (0 < StepAt("file") /\ StepAt("file") < StepAt("mark"))
          /\ StepAt("progress") > 0 => (0 < StepAt("mark") /\ StepAt("mark") < StepAt("progress"))
          /\ last_call.after[1] # last_call.before[1] =>
                (StepAt("mark") > 0 /\ last_call.after[1] = last_call.before[1] \cup {last_call.file})
          /\ last_call.after[2] # last_call.before[2] => StepAt("mark") > 0
          /\ last_call.raised # None =>
                /\ ~last_call.returned
                /\ StepAt("file") = 0
                /\ last_call.after[1] = last_call.before[1]
                /\ last_call.after[2] = last_call.before[2]
                /\ last_call.file \notin last_call.after[1]
    /\ \A i \in 1..Len(Files) :
          (Files[i] \in completed_files \/ Files[i] \in progress_record.keys) => disk[i] >= 1

C21_Witness ==
    /\ pc = "project"
    /\ last_call.file = "b.js"
    /\ last_call.raised = "write"
    /\ last_call.steps = <<"read", "split", "request", "backup">>
    /\ ~last_call.returned
    /\ completed_files = {"a.py"}
    /\ progress_record = [state |-> "json", keys |-> {"a.py"}]
    /\ disk = <<1, 0>>
    /\ runs >= 2

====
